---- MODULE Spec2Model ----
(***************************************************************************)
(* A model of twitter_bot.py: the retry_with_backoff decorator, the two    *)
(* wrapped operations fetch_image and post_to_twitter, the module-level    *)
(* credential check and the scheduler loop of main().                      *)
(*                                                                         *)
(* Three specifications share the definitions of the wrapper:             *)
(*   SpecRetry  one wrapped call of an opaque operation, for every         *)
(*              configuration of a bounded set;                            *)
(*   SpecTwin   two wrapped calls with the same configuration and the same *)
(*              success/failure pattern, one failing with rate-limit       *)
(*              errors only, the other with generic errors only;           *)
(*   Spec       the whole process: import, main(), the daily job.          *)
(***************************************************************************)
EXTENDS Integers, Sequences, FiniteSets, TLC

VARIABLES
    \* ---- one wrapped call (SpecRetry, and the rate-limit run of SpecTwin)
    cfg,        \* the decorator's arguments
    w,          \* the wrapper's frame: locals of wrapper() and how it ended
    trace,      \* history: outcome of every invocation of func, in order
    waited,     \* history: argument of every sleep(delay), in order
    wlog,       \* history: the wrapper's log entries, in order
    \* ---- the generic run of SpecTwin
    pattern,    \* pattern[i] = TRUE iff invocation i of func fails (both runs)
    w2, trace2, waited2, wlog2,
    \* ---- the process (Spec)
    env,        \* the five credentials after load_dotenv
    pc,         \* where the process is
    now,        \* the wall clock in minutes; the host's local time is UTC
    boot,       \* history: the clock when the process was started
    next_run,   \* schedule: the job's next_run
    last_run,   \* schedule: the job's last_run
    outer,      \* frame of the wrapper around post_to_twitter
    inner,      \* frame of the wrapper around fetch_image
    bpc,        \* position in the body of post_to_twitter
    contacted,  \* history: the process has made an HTTP call
    starts,     \* history: number of starts of the job, per day
    lastReq,    \* history: <<the request the last step sent>>, or <<>>
    file,       \* the image file: <<>>, or <<its content>>
    media,      \* <<the content media_upload read>> in this body, or <<>>
    post,       \* history: <<the post created by the current run>>, or <<>>
    run         \* history: <<what the current run has done, counted>>, or
                \* <<>> in a specification that does not count

retryVars == <<cfg, w, trace, waited, wlog>>
twinVars  == <<pattern, w2, trace2, waited2, wlog2>>
progVars  == <<env, pc, now, boot, next_run, last_run, outer, inner, bpc,
               contacted, starts, lastReq, file, media, post, run>>
obsVars == <<file, media, post, run>>
vars == <<retryVars, twinVars, progVars>>

-----------------------------------------------------------------------------
(* Bounds of the model *)

\* largest max_retries of the configurations SpecRetry and SpecTwin try
MaxRetriesBound == 3
\* minutes in a day (1440 in reality; the clock is scaled)
DayLen == 4
\* the clock stops at the end of day MaxDay
MaxDay == 2

None == "None"
\* no time: None as a last_run or next_run
NoTime == 0 - 1

Min(a, b) == IF a <= b THEN a ELSE b

RECURSIVE Pow(_, _)
Pow(b, n) == IF n = 0 THEN 1 ELSE b * Pow(b, n - 1)

-----------------------------------------------------------------------------
(* retry_with_backoff *)

\* The decorator's arguments tried by SpecRetry; they include the arguments
\* of both uses in the program, and arguments outside the documented
\* contract (max_retries < 0, max_delay < initial_delay, backoff_factor = 1).
Configs ==
    [max_retries : -1 .. MaxRetriesBound, initial_delay : {1, 5},
     max_delay : {3, 60}, backoff_factor : {1, 2, 3}]

\* @retry_with_backoff(max_retries=3, initial_delay=5) with the defaults
\* max_delay=60, backoff_factor=2
FetchCfg ==
    [max_retries |-> 3, initial_delay |-> 5, max_delay |-> 60, backoff_factor |-> 2]

PostCfg ==
    [max_retries |-> 3, initial_delay |-> 5, max_delay |-> 60, backoff_factor |-> 2]

\* Exceptions the wrapped operations raise. Errors are those an opaque wrapped
\* operation raises; FetchErrors and TwitterErrors those of the program.
\*   HTTP429          requests.HTTPError from raise_for_status(), status 429
\*   ConnectionError  requests.ConnectionError (no response)
\*   OSError          open()/write() of the image file failed
\*   TooManyRequests  tweepy.errors.TooManyRequests
\*   Unauthorized     tweepy.errors.Unauthorized
FetchErrors   == {"HTTP429", "ConnectionError"}
TwitterErrors == {"TooManyRequests", "Unauthorized"}
Errors        == FetchErrors \cup TwitterErrors \cup {"OSError"}

\* isinstance(e, TooManyRequests) or (isinstance(e, RequestException) and
\* getattr(e.response, 'status_code', 0) == 429)
IsRateLimit(e) == e = "TooManyRequests" \/ e = "HTTP429"

\* Entry of wrapper(): delay = initial_delay, last_exception = None, and the
\* first iteration of the loop. With max_retries < 0 the range is empty and
\* `raise last_exception` raises None, which is a TypeError.
Enter(c) ==
    IF c.max_retries + 1 <= 0
    THEN [st |-> "raised", retry |-> 0, delay |-> c.initial_delay,
          last_exception |-> None, result |-> None, exc |-> "TypeError"]
    ELSE [st |-> "call", retry |-> 0, delay |-> c.initial_delay,
          last_exception |-> None, result |-> None, exc |-> None]

\* A frame that was never entered.
NoFrame ==
    [st |-> "none", retry |-> 0, delay |-> 0,
     last_exception |-> None, result |-> None, exc |-> None]

\* Mutant: the result is kept but the loop goes on as after a failure.
OnSuccess_NoReturn(f, r) == [f EXCEPT !.st = "sleep", !.result = r]

\* return func(*args, **kwargs)
OnSuccess(f, r) == [f EXCEPT !.st = "returned", !.result = r]

\* Mutant: the budget test is off by one (gives up one attempt early).
OnFailure_OffByOne(c, f, e) ==
    IF f.retry + 1 >= c.max_retries
    THEN [f EXCEPT !.last_exception = e, !.st = "raised", !.exc = e]
    ELSE [f EXCEPT !.last_exception = e, !.st = "sleep"]

\* Mutant: the budget test comes after the sleep, so the last failure waits too.
OnFailure_SleepBeforeRaise(c, f, e) ==
    [f EXCEPT !.last_exception = e, !.st = "sleep"]

\* Mutant: the first exception is remembered and raised at the end.
OnFailure_KeepFirst(c, f, e) ==
    LET first == IF f.last_exception = None THEN e ELSE f.last_exception
    IN  IF f.retry = c.max_retries
        THEN [f EXCEPT !.last_exception = first, !.st = "raised", !.exc = first]
        ELSE [f EXCEPT !.last_exception = first, !.st = "sleep"]

\* Mutant: a rate-limit failure waits max_delay instead of the current delay.
OnFailure_RateLimitWaitsMax(c, f, e) ==
    IF f.retry = c.max_retries
    THEN [f EXCEPT !.last_exception = e, !.st = "raised", !.exc = e]
    ELSE [f EXCEPT !.last_exception = e, !.st = "sleep",
                   !.delay = IF IsRateLimit(e) THEN c.max_delay ELSE @]

\* except Exception as e: the handler up to the sleep
OnFailure(c, f, e) ==
    IF f.retry = c.max_retries
    THEN [f EXCEPT !.last_exception = e, !.st = "raised", !.exc = e]
    ELSE [f EXCEPT !.last_exception = e, !.st = "sleep"]

\* Mutant: the last failure is logged as one more warning.
LogOnFailure_AlwaysWarning(c, f, e) ==
    IF IsRateLimit(e)
    THEN [level |-> "warning", msg |-> "Rate limit hit", delay |-> f.delay]
    ELSE [level |-> "warning", msg |-> "Attempt failed", delay |-> f.delay]

\* the entry the handler logs
LogOnFailure(c, f, e) ==
    IF f.retry = c.max_retries
    THEN [level |-> "error", msg |-> "Failed after retries", delay |-> 0]
    ELSE IF IsRateLimit(e)
         THEN [level |-> "warning", msg |-> "Rate limit hit", delay |-> f.delay]
         ELSE [level |-> "warning", msg |-> "Attempt failed", delay |-> f.delay]

\* Mutant: max is taken where min is meant.
NextDelay_MaxNotMin(c, d) ==
    IF d * c.backoff_factor >= c.max_delay THEN d * c.backoff_factor
    ELSE c.max_delay

\* Mutant: the delay is not capped.
NextDelay_NoCap(c, d) == d * c.backoff_factor

\* delay = min(delay * backoff_factor, max_delay)
NextDelay(c, d) == Min(d * c.backoff_factor, c.max_delay)

\* Mutant: the loop is `while True` and the attempt number is not advanced.
AfterSleep_NoAdvance(c, f) ==
    [f EXCEPT !.delay = Min(f.delay * c.backoff_factor, c.max_delay), !.st = "call"]

\* after sleep(delay): the new delay, then the next iteration of the loop, or,
\* when the range is used up, the `raise last_exception` that follows the loop
AfterSleep(c, f) ==
    IF f.retry + 1 < c.max_retries + 1
    THEN [f EXCEPT !.delay = NextDelay(c, f.delay), !.retry = f.retry + 1,
                   !.st = "call"]
    ELSE [f EXCEPT !.delay = NextDelay(c, f.delay), !.st = "raised",
                   !.exc = f.last_exception]

Terminal(f) == f.st \in {"returned", "raised"}

-----------------------------------------------------------------------------
(* SpecRetry: one wrapped call of an opaque operation *)

\* the counters of a run that has done nothing yet
ZeroRun ==
    [bodies |-> 0, fetch |-> 0, fetchok |-> 0, fwaits |-> 0, pwaits |-> 0,
     uploadok |-> 0, tweetok |-> 0]

\* the counters r at the start of a run, and after one more k
Reset(r) == [i \in DOMAIN r |-> ZeroRun]
Count(r, k) == [i \in DOMAIN r |-> [r[i] EXCEPT ![k] = @ + 1]]

Results == {"r1", "r2"}

IdleProg ==
    /\ env = [c \in {} |-> "set"]
    /\ pc = "off"
    /\ now = 0
    /\ boot = 0
    /\ next_run = NoTime
    /\ last_run = NoTime
    /\ outer = NoFrame
    /\ inner = NoFrame
    /\ bpc = "idle"
    /\ contacted = FALSE
    /\ starts = <<>>
    /\ lastReq = <<>>
    /\ file = <<>>
    /\ media = <<>>
    /\ post = <<>>
    /\ run = <<>>

IdleTwin ==
    /\ pattern = <<>>
    /\ w2 = NoFrame
    /\ trace2 = <<>>
    /\ waited2 = <<>>
    /\ wlog2 = <<>>

IdleRetry ==
    /\ cfg = FetchCfg
    /\ w = NoFrame
    /\ trace = <<>>
    /\ waited = <<>>
    /\ wlog = <<>>

InitRetry ==
    /\ cfg \in Configs
    /\ w = Enter(cfg)
    /\ trace = <<>>
    /\ waited = <<>>
    /\ wlog = <<>>
    /\ IdleTwin
    /\ IdleProg

\* func returns r
RetryCallOk ==
    /\ w.st = "call"
    /\ \E r \in Results :
          /\ trace' = Append(trace, <<"ok", r>>)
          /\ w' = OnSuccess(w, r)
    /\ UNCHANGED <<cfg, waited, wlog, twinVars, progVars>>

\* func raises e
RetryCallFail ==
    /\ w.st = "call"
    /\ \E e \in Errors :
          /\ trace' = Append(trace, <<"err", e>>)
          /\ w' = OnFailure(cfg, w, e)
          /\ wlog' = Append(wlog, LogOnFailure(cfg, w, e))
    /\ UNCHANGED <<cfg, waited, twinVars, progVars>>

\* sleep(delay); delay = min(...)
RetrySleep ==
    /\ w.st = "sleep"
    /\ waited' = Append(waited, w.delay)
    /\ w' = AfterSleep(cfg, w)
    /\ UNCHANGED <<cfg, trace, wlog, twinVars, progVars>>

NextRetry == RetryCallOk \/ RetryCallFail \/ RetrySleep

SpecRetry == InitRetry /\ [][NextRetry]_vars

-----------------------------------------------------------------------------
(* SpecTwin: the same configuration and the same success/failure pattern,  *)
(* once with rate-limit failures only (w, trace, waited, wlog) and once    *)
(* with generic failures only (w2, trace2, waited2, wlog2)                 *)

RateLimitErrors == {e \in Errors : IsRateLimit(e)}
GenericErrors   == Errors \ RateLimitErrors

\* invocation i of func fails
Fails(i) == i \in DOMAIN pattern /\ pattern[i]

InitTwin ==
    /\ cfg \in Configs
    /\ pattern \in [1 .. MaxRetriesBound + 1 -> BOOLEAN]
    /\ w = Enter(cfg)
    /\ trace = <<>>
    /\ waited = <<>>
    /\ wlog = <<>>
    /\ w2 = Enter(cfg)
    /\ trace2 = <<>>
    /\ waited2 = <<>>
    /\ wlog2 = <<>>
    /\ IdleProg

\* the rate-limit run invokes func
TwinCallRateLimit ==
    /\ w.st = "call"
    /\ IF Fails(Len(trace) + 1)
       THEN \E e \in RateLimitErrors :
               /\ trace' = Append(trace, <<"err", e>>)
               /\ w' = OnFailure(cfg, w, e)
               /\ wlog' = Append(wlog, LogOnFailure(cfg, w, e))
       ELSE /\ trace' = Append(trace, <<"ok", "r1">>)
            /\ w' = OnSuccess(w, "r1")
            /\ wlog' = wlog
    /\ UNCHANGED <<cfg, waited, twinVars, progVars>>

TwinSleepRateLimit ==
    /\ w.st = "sleep"
    /\ waited' = Append(waited, w.delay)
    /\ w' = AfterSleep(cfg, w)
    /\ UNCHANGED <<cfg, trace, wlog, twinVars, progVars>>

\* the generic run invokes func
TwinCallGeneric ==
    /\ w2.st = "call"
    /\ IF Fails(Len(trace2) + 1)
       THEN \E e \in GenericErrors :
               /\ trace2' = Append(trace2, <<"err", e>>)
               /\ w2' = OnFailure(cfg, w2, e)
               /\ wlog2' = Append(wlog2, LogOnFailure(cfg, w2, e))
       ELSE /\ trace2' = Append(trace2, <<"ok", "r1">>)
            /\ w2' = OnSuccess(w2, "r1")
            /\ wlog2' = wlog2
    /\ UNCHANGED <<pattern, waited2, retryVars, progVars>>

TwinSleepGeneric ==
    /\ w2.st = "sleep"
    /\ waited2' = Append(waited2, w2.delay)
    /\ w2' = AfterSleep(cfg, w2)
    /\ UNCHANGED <<pattern, trace2, wlog2, retryVars, progVars>>

NextTwin ==
    TwinCallRateLimit \/ TwinSleepRateLimit \/ TwinCallGeneric \/ TwinSleepGeneric

SpecTwin == InitTwin /\ [][NextTwin]_vars

-----------------------------------------------------------------------------
(* Spec: the process *)

\* schedule.every().day.at("00:01"): the minute of the day the job is due
AtTime == 1
\* time.sleep(60) of the main loop, in minutes
PollSleep == 1

Day(t) == t \div DayLen
Tod(t) == t % DayLen
\* 23:59, the last minute of a day
LastMinute == DayLen - 1
\* the last minute the clock reaches
MaxTime == (MaxDay + 1) * DayLen - 1

\* TWITTER_API_KEY, TWITTER_API_SECRET, TWITTER_ACCESS_TOKEN,
\* TWITTER_ACCESS_TOKEN_SECRET, GRAFANA_TOKEN
CredNames ==
    {"TWITTER_API_KEY", "TWITTER_API_SECRET", "TWITTER_ACCESS_TOKEN",
     "TWITTER_ACCESS_TOKEN_SECRET", "GRAFANA_TOKEN"}

\* os.environ.get(name): None when unset, '' when set to nothing, else a value
CredValues == {"unset", "empty", "set"}

\* truth value of a credential: None and '' are false
Truthy(v) == v = "set"

\* Mutant: the check tests `is not None`, so an empty value passes.
AllCreds_NotNone(e) == \A c \in CredNames : e[c] # "unset"

\* all([TWITTER_API_KEY, ..., GRAFANA_TOKEN])
AllCreds(e) == \A c \in CredNames : Truthy(e[c])

\* datetime.now(UTC): the day, the minute of the day, and the part below the
\* minute, which the clock of the model does not carry (s, us are inputs)
DateTimeNow(t, s, us) ==
    [day |-> Day(t), minute |-> Tod(t), second |-> s, microsecond |-> us]

\* dt - timedelta(days=1)
MinusOneDay(dt) == [dt EXCEPT !.day = @ - 1]

\* yesterday.replace(hour=0, minute=0, second=0, microsecond=0)
FromDate(dt) == [dt EXCEPT !.minute = 0, !.second = 0, !.microsecond = 0]

\* yesterday.replace(hour=23, minute=59, second=59, microsecond=999999)
ToDate(dt) ==
    [dt EXCEPT !.minute = LastMinute, !.second = 59, !.microsecond = 999999]

\* dt.strftime("%Y-%m-%dT%H:%M:%S.000Z"): date, hour, minute and second of dt;
\* the milliseconds are the literal 000 of the format
Strftime(dt) ==
    [day |-> dt.day, minute |-> dt.minute, second |-> dt.second, ms |-> 0]

\* the "from" and "to" parameters of the request made at datetime dt
RequestParams(dt) ==
    [from |-> Strftime(FromDate(MinusOneDay(dt))),
     to   |-> Strftime(ToDate(MinusOneDay(dt)))]

ImagePath == "/app/data/panel.jpg"

\* the file as a later execution of the body of post_to_twitter finds it:
\* the same content, written before that execution began
Earlier(f) == [i \in DOMAIN f |-> [f[i] EXCEPT !.by = "earlier"]]

\* (datetime.now(UTC) - timedelta(days=1)).strftime("%B %d"): the month and
\* the day of the month, which name the day
CaptionDay(dt) == MinusOneDay(dt).day

\* Mutant: the job is due on the day of the call whatever the time is.
ScheduleNextRun_Today(t, last) == Day(t) * DayLen + AtTime

\* schedule's Job._schedule_next_run for every().day.at("00:01"), called at
\* time t with last_run = last: next_run = (now + 1 day) at 00:01, moved back
\* a day when the job has not run in the last day and 00:01 is still ahead
ScheduleNextRun(t, last) ==
    LET nr == (Day(t) + 1) * DayLen + AtTime
    IN  IF (last = NoTime \/ nr - last > DayLen) /\ AtTime > Tod(t)
        THEN nr - DayLen
        ELSE nr

\* schedule's Job.should_run: datetime.now() >= next_run
ShouldRun(t, nr) == t >= nr

\* d minutes pass, for some d of D, while the clock has not stopped
Elapse(D) == \E d \in D : now + d <= MaxTime /\ now' = now + d

Init ==
    /\ env \in [CredNames -> CredValues]
    /\ pc = "import"
    /\ now \in 0 .. DayLen - 1
    /\ boot = now
    /\ next_run = NoTime
    /\ last_run = NoTime
    /\ outer = NoFrame
    /\ inner = NoFrame
    /\ bpc = "idle"
    /\ contacted = FALSE
    /\ starts = [d \in 0 .. MaxDay |-> 0]
    /\ lastReq = <<>>
    /\ file \in {<<>>, <<[by |-> "earlier", day |-> 0 - 2]>>}
    /\ media = <<>>
    /\ post = <<>>
    /\ run = <<>>
    /\ IdleRetry
    /\ IdleTwin

\* module level: read the credentials and verify them; a missing one raises
\* at import, before main() is reached
Import ==
    /\ pc = "import"
    /\ pc' = IF AllCreds(env) THEN "main" ELSE "aborted"
    /\ UNCHANGED <<env, now, boot, next_run, last_run, outer, inner, bpc, contacted,
                   starts, lastReq, retryVars, twinVars>>
    /\ UNCHANGED obsVars

\* main() up to the loop: schedule.every().day.at("00:01").do(post_to_twitter)
MainSchedule ==
    /\ pc = "main"
    /\ next_run' = ScheduleNextRun(now, NoTime)
    /\ pc' = "poll"
    /\ UNCHANGED <<env, now, boot, last_run, outer, inner, bpc, contacted, starts,
                   lastReq, retryVars, twinVars>>
    /\ UNCHANGED obsVars

\* schedule.run_pending() when the job is not due: nothing runs
RunPendingIdle ==
    /\ pc = "poll"
    /\ ~ShouldRun(now, next_run)
    /\ pc' = "sleep"
    /\ UNCHANGED <<env, now, boot, next_run, last_run, outer, inner, bpc, contacted,
                   starts, lastReq, retryVars, twinVars>>
    /\ UNCHANGED obsVars

\* Mutant: the job is handed to a thread and run_pending() returns at once.
RunPendingStart_Background ==
    /\ pc = "poll"
    /\ ShouldRun(now, next_run)
    /\ pc' = "sleep"
    /\ outer' = Enter(PostCfg)
    /\ inner' = NoFrame
    /\ bpc' = "begin"
    /\ starts' = [starts EXCEPT ![Day(now)] = @ + 1]
    /\ UNCHANGED <<env, now, boot, next_run, last_run, contacted, lastReq,
                   retryVars, twinVars>>
    /\ run' = Reset(run)
    /\ media' = <<>>
    /\ post' = <<>>
    /\ UNCHANGED file

\* schedule.run_pending() when the job is due: post_to_twitter() is called
RunPendingStart ==
    /\ pc = "poll"
    /\ ShouldRun(now, next_run)
    /\ pc' = "job"
    /\ outer' = Enter(PostCfg)
    /\ inner' = NoFrame
    /\ bpc' = "begin"
    /\ starts' = [starts EXCEPT ![Day(now)] = @ + 1]
    /\ UNCHANGED <<env, now, boot, next_run, last_run, contacted, lastReq,
                   retryVars, twinVars>>
    /\ run' = Reset(run)
    /\ media' = <<>>
    /\ post' = <<>>
    /\ UNCHANGED file

\* time.sleep(60) of the main loop; a sleep lasts at least its argument
MainSleep ==
    /\ pc = "sleep"
    /\ Elapse({PollSleep, PollSleep + 1})
    /\ pc' = "poll"
    /\ UNCHANGED <<env, boot, next_run, last_run, outer, inner, bpc, contacted,
                   starts, lastReq, retryVars, twinVars>>
    /\ UNCHANGED obsVars

\* Mutant: the delay lives outside wrapper(), shared by the wrappers.
BodyBegin_SharedDelay ==
    /\ pc = "job"
    /\ outer.st = "call"
    /\ bpc = "begin"
    /\ inner' = [Enter(FetchCfg) EXCEPT !.delay = outer.delay]
    /\ bpc' = "fetch"
    /\ UNCHANGED <<env, pc, now, boot, next_run, last_run, outer, contacted, starts,
                   lastReq, retryVars, twinVars>>
    /\ run' = Count(run, "bodies")
    /\ file' = Earlier(file)
    /\ media' = <<>>
    /\ UNCHANGED post

\* post_to_twitter body: the clients are built and fetch_image() is called
BodyBegin ==
    /\ pc = "job"
    /\ outer.st = "call"
    /\ bpc = "begin"
    /\ inner' = Enter(FetchCfg)
    /\ bpc' = "fetch"
    /\ UNCHANGED <<env, pc, now, boot, next_run, last_run, outer, contacted, starts,
                   lastReq, retryVars, twinVars>>
    /\ run' = Count(run, "bodies")
    /\ file' = Earlier(file)
    /\ media' = <<>>
    /\ UNCHANGED post

\* the request of one invocation of the fetch_image body
FetchRequest ==
    /\ pc = "job"
    /\ bpc = "fetch"
    /\ inner.st = "call"
    /\ \E s \in {0, 59}, us \in {0, 999999} :
          lastReq' = <<[at |-> now] @@ RequestParams(DateTimeNow(now, s, us))>>
    /\ contacted' = TRUE
    /\ Elapse({0, 1})

\* fetch_image body: the response is 2xx and the file is written
FetchOk ==
    /\ FetchRequest
    /\ inner' = OnSuccess(inner, ImagePath)
    /\ UNCHANGED <<env, pc, boot, next_run, last_run, outer, bpc, starts,
                   retryVars, twinVars>>
    /\ file' = <<[by |-> "this", day |-> lastReq'[1].from.day]>>
    /\ run' = Count(Count(run, "fetch"), "fetchok")
    /\ UNCHANGED <<media, post>>

\* fetch_image body: the request or raise_for_status() raises, before the file
\* is opened
FetchFail ==
    /\ FetchRequest
    /\ \E e \in FetchErrors : inner' = OnFailure(FetchCfg, inner, e)
    /\ UNCHANGED <<env, pc, boot, next_run, last_run, outer, bpc, starts,
                   retryVars, twinVars>>
    /\ run' = Count(run, "fetch")
    /\ UNCHANGED <<file, media, post>>

\* the wrapper of fetch_image sleeps
FetchSleep ==
    /\ pc = "job"
    /\ bpc = "fetch"
    /\ inner.st = "sleep"
    /\ Elapse({0, 1})
    /\ inner' = AfterSleep(FetchCfg, inner)
    /\ lastReq' = <<>>
    /\ UNCHANGED <<env, pc, boot, next_run, last_run, outer, bpc, contacted, starts,
                   retryVars, twinVars>>
    /\ run' = Count(run, "fwaits")
    /\ UNCHANGED <<file, media, post>>

\* Mutant: the body goes on to the upload with the fixed path whether
\* fetch_image() returned or raised.
FetchReturned_Regardless ==
    /\ pc = "job"
    /\ bpc = "fetch"
    /\ inner.st \in {"returned", "raised"}
    /\ bpc' = "upload"
    /\ inner' = NoFrame
    /\ lastReq' = <<>>
    /\ UNCHANGED <<env, pc, now, boot, next_run, last_run, outer, contacted,
                   starts, retryVars, twinVars>>
    /\ UNCHANGED obsVars

\* fetch_image() returned a path (never an empty one) and its frame is gone:
\* go on to the upload
FetchReturned ==
    /\ pc = "job"
    /\ bpc = "fetch"
    /\ inner.st = "returned"
    /\ inner.result # ""
    /\ bpc' = "upload"
    /\ inner' = NoFrame
    /\ lastReq' = <<>>
    /\ UNCHANGED <<env, pc, now, boot, next_run, last_run, outer, contacted,
                   starts, retryVars, twinVars>>
    /\ UNCHANGED obsVars

\* Mutant: a failure of fetch_image() is not retried by the wrapper of
\* post_to_twitter.
FetchRaised_NotRetried ==
    /\ pc = "job"
    /\ bpc = "fetch"
    /\ inner.st = "raised"
    /\ outer' = [outer EXCEPT !.last_exception = inner.exc, !.st = "raised",
                              !.exc = inner.exc]
    /\ inner' = NoFrame
    /\ bpc' = "idle"
    /\ lastReq' = <<>>
    /\ UNCHANGED <<env, pc, now, boot, next_run, last_run, contacted, starts,
                   retryVars, twinVars>>
    /\ UNCHANGED obsVars

\* fetch_image() raised: the exception leaves the body of post_to_twitter and
\* reaches the handler of its wrapper
FetchRaised ==
    /\ pc = "job"
    /\ bpc = "fetch"
    /\ inner.st = "raised"
    /\ outer' = OnFailure(PostCfg, outer, inner.exc)
    /\ inner' = NoFrame
    /\ bpc' = "idle"
    /\ lastReq' = <<>>
    /\ UNCHANGED <<env, pc, now, boot, next_run, last_run, contacted, starts,
                   retryVars, twinVars>>
    /\ UNCHANGED obsVars

\* api.media_upload(filename=image_path) succeeds
UploadOk ==
    /\ pc = "job"
    /\ bpc = "upload"
    /\ contacted' = TRUE
    /\ Elapse({0, 1})
    /\ bpc' = "tweet"
    /\ UNCHANGED <<env, pc, boot, next_run, last_run, outer, inner, starts,
                   lastReq, retryVars, twinVars>>
    /\ media' = file
    /\ run' = Count(run, "uploadok")
    /\ UNCHANGED <<file, post>>

\* api.media_upload raises
UploadFail ==
    /\ pc = "job"
    /\ bpc = "upload"
    /\ contacted' = TRUE
    /\ Elapse({0, 1})
    /\ \E e \in TwitterErrors : outer' = OnFailure(PostCfg, outer, e)
    /\ bpc' = "idle"
    /\ UNCHANGED <<env, pc, boot, next_run, last_run, inner, starts, lastReq,
                   retryVars, twinVars>>
    /\ media' = file
    /\ UNCHANGED <<file, post, run>>

\* Mutant: the post is created and the body then raises, so that the wrapper
\* treats the attempt as failed.
TweetOk_ThenRaises ==
    /\ pc = "job"
    /\ bpc = "tweet"
    /\ contacted' = TRUE
    /\ Elapse({0, 1})
    /\ outer' = OnFailure(PostCfg, outer, "TooManyRequests")
    /\ bpc' = "idle"
    /\ UNCHANGED <<env, pc, boot, next_run, last_run, inner, starts, lastReq,
                   retryVars, twinVars>>
    /\ post' = <<[media |-> media, caption |-> CaptionDay(DateTimeNow(now, 0, 0))]>>
    /\ run' = Count(run, "tweetok")
    /\ UNCHANGED <<file, media>>

\* client.create_tweet succeeds and post_to_twitter returns None
TweetOk ==
    /\ pc = "job"
    /\ bpc = "tweet"
    /\ contacted' = TRUE
    /\ Elapse({0, 1})
    /\ outer' = OnSuccess(outer, None)
    /\ bpc' = "idle"
    /\ UNCHANGED <<env, pc, boot, next_run, last_run, inner, starts, lastReq,
                   retryVars, twinVars>>
    /\ post' = <<[media |-> media, caption |-> CaptionDay(DateTimeNow(now, 0, 0))]>>
    /\ run' = Count(run, "tweetok")
    /\ UNCHANGED <<file, media>>

\* client.create_tweet raises
TweetFail ==
    /\ pc = "job"
    /\ bpc = "tweet"
    /\ contacted' = TRUE
    /\ Elapse({0, 1})
    /\ \E e \in TwitterErrors : outer' = OnFailure(PostCfg, outer, e)
    /\ bpc' = "idle"
    /\ UNCHANGED <<env, pc, boot, next_run, last_run, inner, starts, lastReq,
                   retryVars, twinVars>>
    /\ UNCHANGED obsVars

\* the wrapper of post_to_twitter sleeps, then calls the body again
PostSleep ==
    /\ pc = "job"
    /\ outer.st = "sleep"
    /\ Elapse({0, 1})
    /\ outer' = AfterSleep(PostCfg, outer)
    /\ bpc' = "begin"
    /\ UNCHANGED <<env, pc, boot, next_run, last_run, inner, contacted, starts,
                   lastReq, retryVars, twinVars>>
    /\ run' = Count(run, "pwaits")
    /\ UNCHANGED <<file, media, post>>

\* post_to_twitter() returned: schedule's Job.run sets last_run and
\* next_run, run_pending() returns and the loop sleeps; the frame is gone
JobReturned ==
    /\ pc = "job"
    /\ outer.st = "returned"
    /\ last_run' = now
    /\ next_run' = ScheduleNextRun(now, now)
    /\ pc' = "sleep"
    /\ outer' = NoFrame
    /\ UNCHANGED <<env, now, boot, inner, bpc, contacted, starts, lastReq,
                   retryVars, twinVars>>
    /\ run' = Reset(run)
    /\ media' = <<>>
    /\ post' = <<>>
    /\ UNCHANGED file

\* post_to_twitter() raised: nothing between the wrapper and the top of the
\* program catches it (Job.run, run_pending() and main() have no handler),
\* so the interpreter ends with a traceback
JobRaised ==
    /\ pc = "job"
    /\ outer.st = "raised"
    /\ pc' = "crashed"
    /\ UNCHANGED <<env, now, boot, next_run, last_run, outer, inner, bpc, contacted,
                   starts, lastReq, retryVars, twinVars>>
    /\ UNCHANGED obsVars

Next ==
    \/ Import \/ MainSchedule \/ RunPendingIdle \/ RunPendingStart \/ MainSleep
    \/ BodyBegin \/ FetchOk \/ FetchFail \/ FetchSleep \/ FetchReturned
    \/ FetchRaised \/ UploadOk \/ UploadFail \/ TweetOk \/ TweetFail
    \/ PostSleep \/ JobReturned \/ JobRaised

Spec == Init /\ [][Next]_vars

-----------------------------------------------------------------------------
(* SpecRun: one run of the job, counted. It begins where Spec is when a    *)
(* process started at 23:59 of day 0 polls at 00:01 or 00:02 of day 1, the *)
(* image file absent or left by an earlier process.                        *)

InitRunUncounted ==
    /\ env = [c \in CredNames |-> "set"]
    /\ pc = "poll"
    /\ boot = LastMinute
    /\ now \in {DayLen + AtTime, DayLen + AtTime + PollSleep}
    /\ next_run = ScheduleNextRun(boot, NoTime)
    /\ last_run = NoTime
    /\ outer = NoFrame
    /\ inner = NoFrame
    /\ bpc = "idle"
    /\ contacted = FALSE
    /\ starts = [d \in 0 .. MaxDay |-> 0]
    /\ lastReq = <<>>
    /\ file \in {<<>>, <<[by |-> "earlier", day |-> 0 - 2]>>}
    /\ media = <<>>
    /\ post = <<>>
    /\ IdleRetry
    /\ IdleTwin

InitRun == InitRunUncounted /\ run = <<ZeroRun>>

\* the steps of a run, from the call of post_to_twitter to its end
NextRun ==
    \/ RunPendingStart \/ BodyBegin \/ FetchOk \/ FetchFail \/ FetchSleep
    \/ FetchReturned \/ FetchRaised \/ UploadOk \/ UploadFail \/ TweetOk
    \/ TweetFail \/ PostSleep \/ JobReturned \/ JobRaised

SpecRun == InitRun /\ [][NextRun]_vars

\* the same run, not counted, in which every HTTP call and every sleep ends
InitRunLive == InitRunUncounted /\ run = <<>>

SpecRunLive == InitRunLive /\ [][NextRun]_vars /\ WF_vars(NextRun)

-----------------------------------------------------------------------------
(* Properties of the wrapper *)

\* the documented contract of the decorator's arguments
Contract(c) ==
    /\ c.max_retries >= 0
    /\ c.initial_delay > 0
    /\ c.max_delay >= c.initial_delay
    /\ c.backoff_factor > 1

IsErr(o) == o[1] = "err"
IsOk(o)  == o[1] = "ok"
AllFailed(t) == \A i \in 1 .. Len(t) : IsErr(t[i])
Distinct(t) == \A i, j \in 1 .. Len(t) : i # j => t[i] # t[j]

\* C1: with max_retries >= 0 the wrapper never invokes the operation more than
\* max_retries + 1 times, and when every invocation fails it propagates a
\* failure after exactly max_retries + 1 invocations, not earlier.
C1_AttemptsOnExhaustion ==
    cfg.max_retries >= 0 =>
        /\ Len(trace) <= cfg.max_retries + 1
        /\ (w.st = "raised" => AllFailed(trace) /\ Len(trace) = cfg.max_retries + 1)
        /\ (AllFailed(trace) /\ Len(trace) = cfg.max_retries + 1 => w.st = "raised")

C1_Witness ==
    /\ w.st = "raised"
    /\ cfg.max_retries = MaxRetriesBound
    /\ Len(trace) = MaxRetriesBound + 1
    /\ AllFailed(trace)

\* C2: under the contract, the k-th wait (the one before retry k) is
\* min(initial_delay * backoff_factor^(k-1), max_delay), it follows failure k
\* directly, and with the arguments of fetch_image and post_to_twitter the
\* three waits are 5, 10 and 20 seconds.
C2_WaitFormula ==
    Contract(cfg) =>
        /\ \A k \in 1 .. Len(waited) :
              waited[k] = Min(cfg.initial_delay * Pow(cfg.backoff_factor, k - 1),
                              cfg.max_delay)
        /\ (w.st = "call" => Len(waited) = Len(trace))
        /\ (w.st = "sleep" => Len(waited) = Len(trace) - 1)
        /\ (cfg = FetchCfg /\ cfg = PostCfg /\ Len(waited) = 3
               => waited = <<5, 10, 20>>)

C2_Witness ==
    /\ cfg = FetchCfg
    /\ w.st = "raised"
    /\ Len(trace) = 4
    /\ waited = <<5, 10, 20>>

\* C3: no invocation follows a successful one; after a success on attempt j
\* the wrapper has returned that attempt's result and has waited j - 1 times.
C3_SuccessStops ==
    /\ \A i \in 1 .. Len(trace) - 1 : IsErr(trace[i])
    /\ (w.st = "returned" => Len(trace) >= 1 /\ IsOk(trace[Len(trace)]))
    /\ (Len(trace) >= 1 /\ IsOk(trace[Len(trace)]) =>
            /\ w.st = "returned"
            /\ w.result = trace[Len(trace)][2]
            /\ Len(waited) = Len(trace) - 1)

C3_Witness ==
    /\ w.st = "returned"
    /\ Len(trace) = 3
    /\ w.result = "r2"
    /\ Len(waited) = 2

\* C4: after exhaustion the propagated exception is the one the final
\* invocation raised.
C4_LastErrorPropagated ==
    (w.st = "raised" /\ cfg.max_retries >= 0) =>
        /\ IsErr(trace[Len(trace)])
        /\ w.exc = trace[Len(trace)][2]

C4_Witness ==
    /\ w.st = "raised"
    /\ Len(trace) = 3
    /\ Distinct(trace)
    /\ w.exc = trace[3][2]

\* C6: with max_retries = 0 there is at most one invocation and never a wait,
\* and a failure of that invocation is propagated at once.
C6_ZeroRetries ==
    cfg.max_retries = 0 =>
        /\ Len(trace) <= 1
        /\ waited = <<>>
        /\ w.st # "sleep"
        /\ (Len(trace) = 1 /\ IsErr(trace[1]) =>
               w.st = "raised" /\ w.exc = trace[1][2])

C6_Witness ==
    /\ cfg.max_retries = 0
    /\ w.st = "raised"
    /\ Len(trace) = 1
    /\ waited = <<>>

\* the same log entry up to the wording of the message
SameButWording(a, b) == a.level = b.level /\ a.delay = b.delay

\* C7: in the two runs of SpecTwin the waits agree wait by wait, and once both
\* have ended they made the same number of invocations, waited the same
\* delays, ended the same way with the same result, and logged entries that
\* differ in wording only.
C7_ClassificationBlind ==
    /\ \A k \in 1 .. Min(Len(waited), Len(waited2)) : waited[k] = waited2[k]
    /\ (Terminal(w) /\ Terminal(w2)) =>
          /\ Len(trace) = Len(trace2)
          /\ waited = waited2
          /\ w.st = w2.st
          /\ w.result = w2.result
          /\ Len(wlog) = Len(wlog2)
          /\ \A i \in 1 .. Min(Len(wlog), Len(wlog2)) :
                SameButWording(wlog[i], wlog2[i])

C7_Witness ==
    /\ Terminal(w) /\ Terminal(w2)
    /\ Len(trace) = 3
    /\ Len(waited) = 2
    /\ waited[1] # waited[2]
    /\ \A i \in 1 .. 2 : IsRateLimit(trace[i][2]) /\ ~IsRateLimit(trace2[i][2])
    /\ wlog[1].msg # wlog2[1].msg

-----------------------------------------------------------------------------
(* Properties of the process *)

\* C5: a run of the job that ends in a propagated failure does not end the
\* process.
C5_FailedRunSurvives == outer.st = "raised" => pc # "crashed"

\* C8: with one of the five credentials unset or empty the process gets no
\* further than the failed import: the job is never scheduled or started, no
\* wrapper is entered and no HTTP call is made.
C8_MissingCredentialAborts ==
    (\E c \in CredNames : env[c] \in {"unset", "empty"}) =>
        /\ pc \in {"import", "aborted"}
        /\ next_run = NoTime
        /\ \A d \in DOMAIN starts : starts[d] = 0
        /\ outer = NoFrame
        /\ inner = NoFrame
        /\ ~contacted
        /\ lastReq = <<>>

C8_Witness ==
    /\ pc = "aborted"
    /\ env["GRAFANA_TOKEN"] = "empty"
    /\ \A c \in CredNames \ {"GRAFANA_TOKEN"} : env[c] = "set"

\* 00:01 of day d
Due(d) == d * DayLen + AtTime
Today == Day(now)

C10_WindowIsPreviousDay ==
    \A i \in DOMAIN lastReq :
        /\ lastReq[i].from =
              [day |-> Day(lastReq[i].at) - 1, minute |-> 0, second |-> 0, ms |-> 0]
        /\ lastReq[i].to =
              [day |-> Day(lastReq[i].at) - 1, minute |-> LastMinute,
               second |-> 59, ms |-> 999]

-----------------------------------------------------------------------------
(* Further properties of the wrapper *)

\* C11: with max_delay >= initial_delay and backoff_factor > 1, no step of a
\* wrapped call lowers the current delay, the delays waited are in
\* non-decreasing order, and neither the current delay nor a delay waited
\* exceeds max_delay.
C11_DelayMonotoneBounded ==
    /\ [][(cfg.max_delay >= cfg.initial_delay /\ cfg.backoff_factor > 1)
             => w'.delay >= w.delay]_vars
    /\ []((cfg.max_delay >= cfg.initial_delay /\ cfg.backoff_factor > 1) =>
             /\ w.delay <= cfg.max_delay
             /\ \A k \in 1 .. Len(waited) : waited[k] <= cfg.max_delay
             /\ \A k \in 1 .. Len(waited) - 1 : waited[k] <= waited[k + 1])

\* three waits, the last one capped
C11_Witness ==
    /\ cfg.max_delay >= cfg.initial_delay
    /\ cfg.backoff_factor > 1
    /\ Len(waited) = 3
    /\ waited[1] < waited[2]
    /\ waited[3] = cfg.max_delay
    /\ cfg.initial_delay * Pow(cfg.backoff_factor, 2) > cfg.max_delay

-----------------------------------------------------------------------------
(* Further properties of the process *)

\* C12: every call of fetch_image and of post_to_twitter enters its wrapper
\* with retry 0, delay initial_delay and no last exception, whatever happened
\* before; while a call of fetch_image is in progress the frame of
\* post_to_twitter does not change, and the retry and delay of post_to_twitter
\* change only while no call of fetch_image is in progress.
C12_FreshRetryState ==
    /\ [][(inner.st = "none" /\ inner'.st # "none") =>
             /\ inner'.retry = 0
             /\ inner'.delay = FetchCfg.initial_delay
             /\ inner'.last_exception = None]_vars
    /\ [][(outer.st = "none" /\ outer'.st # "none") =>
             /\ outer'.retry = 0
             /\ outer'.delay = PostCfg.initial_delay
             /\ outer'.last_exception = None]_vars
    /\ [][(inner.st # "none" /\ inner'.st # "none") => outer' = outer]_vars
    /\ [][(outer.st # "none" /\ outer'.st # "none"
             /\ (outer'.retry # outer.retry \/ outer'.delay # outer.delay))
            => (inner = NoFrame /\ inner' = NoFrame)]_vars

\* fetch_image is called afresh in the third attempt of post_to_twitter, after
\* a call of it ended in exhaustion, in the run of the second day
C12_Witness ==
    /\ pc = "job"
    /\ Today >= 1
    /\ starts[0] = 1
    /\ outer.retry = 2
    /\ outer.delay = 20
    /\ outer.last_exception \in FetchErrors
    /\ inner.st = "call"
    /\ inner.retry = 0
    /\ inner.delay = 5

\* a call of a wrapper is in progress
Active(f) == f.st \in {"call", "sleep"}

\* C13: when every HTTP call and every sleep ends, every call of fetch_image
\* ends, by returning or raising, and so does every run of the job; in neither
\* wrapper does the retry count (the number of waits made) pass max_retries.
C13_RunEnds ==
    /\ Active(inner) ~> ~Active(inner)
    /\ Active(outer) ~> Terminal(outer)
    /\ (pc = "job") ~> (pc \in {"sleep", "crashed"})
    /\ [](inner.retry <= FetchCfg.max_retries /\ outer.retry <= PostCfg.max_retries)

\* the run has ended in exhaustion after the last call of fetch_image did
C13_Witness ==
    /\ pc = "crashed"
    /\ outer.st = "raised"
    /\ outer.retry = PostCfg.max_retries
    /\ outer.exc \in FetchErrors

\* C14: runs never overlap. The main loop sleeps and polls only while no run is
\* in progress, and a run is started only by a poll, when the wrappers of the
\* run before have been left; the next start is on a different day.
C14_RunsNeverOverlap ==
    /\ [](pc \in {"sleep", "poll"} => outer = NoFrame /\ inner = NoFrame /\ bpc = "idle")
    /\ [](Active(outer) \/ inner # NoFrame \/ bpc # "idle" => pc = "job")
    /\ [][starts' # starts =>
             /\ pc = "poll"
             /\ outer = NoFrame /\ inner = NoFrame /\ bpc = "idle"
             /\ starts[Today] = 0]_vars

\* a run started on day 0 is still in progress past 00:01 of day 1, when the
\* next run is due, and that run has not been started
C14_Witness ==
    /\ pc = "job"
    /\ Active(outer)
    /\ starts[0] = 1
    /\ now >= Due(1)
    /\ starts[1] = 0

-----------------------------------------------------------------------------
(* The log of the wrapper, under SpecRetry.                                *)

\* the number of entries of a level in a log
CountLevel(l, lv) == Cardinality({i \in DOMAIN l : l[i].level = lv})

\* the number of failed attempts of a trace
Failures(t) == Cardinality({i \in DOMAIN t : IsErr(t[i])})

\* C15 as stated: with max_retries >= 0 the wrapper logs an informational entry for every attempt,
\* one warning for every wait, emitted before the wait begins, and one error
\* entry when the budget is exhausted; a call that succeeds on its first
\* attempt logs no warning and no error.
C15_EntryPerAttemptAndWait ==
    cfg.max_retries >= 0 =>
        /\ CountLevel(wlog, "info") = Len(trace)
        /\ CountLevel(wlog, "warning") = Len(waited) + (IF w.st = "sleep" THEN 1 ELSE 0)
        /\ CountLevel(wlog, "error") = (IF w.st = "raised" THEN 1 ELSE 0)
        /\ (Len(trace) = 1 /\ IsOk(trace[1]) =>
               CountLevel(wlog, "warning") = 0 /\ CountLevel(wlog, "error") = 0)

\* C15 amended: with max_retries >= 0 the wrapper logs nothing for an attempt
\* that succeeds and nothing informational at all; it logs exactly one entry for every failed
\* attempt: a warning that names the delay about to be waited, emitted before
\* the wait begins, when a wait follows, and an error entry, the last of the
\* log, when the budget is exhausted. A call that succeeds on its first
\* attempt logs nothing.
C15_EntryPerFailedAttempt ==
    cfg.max_retries >= 0 =>
        /\ CountLevel(wlog, "info") = 0
        /\ Len(wlog) = Failures(trace)
        /\ CountLevel(wlog, "warning") = Len(waited) + (IF w.st = "sleep" THEN 1 ELSE 0)
        /\ (w.st = "sleep" =>
               /\ wlog[Len(wlog)].level = "warning"
               /\ wlog[Len(wlog)].delay = w.delay)
        /\ CountLevel(wlog, "error") = (IF w.st = "raised" THEN 1 ELSE 0)
        /\ (w.st = "raised" => wlog[Len(wlog)].level = "error")
        /\ (Len(trace) = 1 /\ IsOk(trace[1]) => wlog = <<>>)

\* two waits, each after its warning, then the budget is exhausted
C15_Witness ==
    /\ w.st = "raised"
    /\ Len(waited) = 2
    /\ Len(wlog) = 3
    /\ wlog[1].level = "warning"
    /\ wlog[2].level = "warning"
    /\ wlog[3].level = "error"

-----------------------------------------------------------------------------
(* One run of the job, counted, under SpecRun.                             *)

\* C16: one run makes at most (3+1)*(3+1) = 16 fetch requests and executes the
\* body of post_to_twitter at most 4 times; a run that fails without one
\* successful fetch has made exactly 16 requests, 12 waits in the wrapper of
\* fetch_image and 3 in the wrapper of post_to_twitter, over 4 bodies.
C16_NestedRetryCounts ==
    \A i \in DOMAIN run :
        /\ FetchCfg.max_retries = 3 /\ PostCfg.max_retries = 3
        /\ run[i].fetch <= 16
        /\ run[i].bodies <= 4
        /\ run[i].fwaits <= 12
        /\ run[i].pwaits <= 3
        /\ (outer.st = "raised" /\ run[i].fetchok = 0 =>
               /\ run[i].fetch = 16
               /\ run[i].bodies = 4
               /\ run[i].fwaits = 12
               /\ run[i].pwaits = 3)

\* the run has failed after 16 requests, none of which succeeded
C16_Witness ==
    /\ pc = "crashed"
    /\ outer.exc \in FetchErrors
    /\ run = <<[ZeroRun EXCEPT !.fetch = 16, !.bodies = 4, !.fwaits = 12, !.pwaits = 3]>>

\* C17: a run creates at most one post. Once create_tweet has succeeded the
\* wrapper of post_to_twitter has returned and the body is not executed again:
\* the only step left to the run is its end. (media_upload may have succeeded
\* in several bodies of the run.)
C17_AtMostOnePost ==
    /\ [](\A i \in DOMAIN run :
             /\ run[i].tweetok <= 1
             /\ Len(post) = run[i].tweetok
             /\ (run[i].tweetok = 1 => outer.st = "returned" /\ bpc = "idle"))
    /\ [][\A i \in DOMAIN run :
             run[i].tweetok = 1 => pc' = "sleep" /\ run'[i].bodies = 0]_vars

\* the upload succeeded in three bodies of the run, the post was created once
C17_Witness ==
    /\ pc = "job"
    /\ Len(post) = 1
    /\ \E i \in DOMAIN run :
          /\ run[i].uploadok = 3
          /\ run[i].bodies = 3
          /\ run[i].tweetok = 1

\* the file is the one a fetch of the body in progress wrote
Fresh(f) == Len(f) = 1 /\ f[1].by = "this"

\* C18: the file that media_upload reads, and the media of a post, is the file
\* written by a successful fetch of the same body of post_to_twitter, never
\* one found by the body; a fetch attempt that fails leaves the file as it
\* was, and a call of fetch_image that raises ends the body without an upload.
C18_UploadIsOwnFetch ==
    /\ [](bpc \in {"upload", "tweet"} => Fresh(file))
    /\ [](media # <<>> => Fresh(media) /\ media = file)
    /\ [](\A i \in DOMAIN post : Fresh(post[i].media))
    /\ [][bpc = "fetch" /\ inner.st = "call" /\ inner'.st \in {"sleep", "raised"}
             => file' = file /\ media' = media /\ bpc' = "fetch"]_vars
    /\ [][inner.st = "raised" => bpc' = "idle" /\ media' = <<>>]_vars

\* the second body of a run found the file of the first, its first fetch
\* attempt failed, its second wrote the file that was then uploaded
C18_Witness ==
    /\ bpc = "tweet"
    /\ Fresh(media)
    /\ \E i \in DOMAIN run :
          /\ run[i].bodies = 2
          /\ run[i].fetchok = 2
          /\ run[i].fetch = 3
          /\ run[i].fwaits = 1

\* C19: in every post the day named in the caption, read from the clock after
\* the upload, is the day of the window of the fetch that wrote the uploaded
\* image, read from the clock by that fetch.
C19_CaptionDayIsImageDay ==
    \A i \in DOMAIN post :
        \A j \in DOMAIN post[i].media :
            post[i].caption = post[i].media[j].day

====
